---- MODULE Spec2Model ----
(***************************************************************************)
(* google-tasks-agent: the seen-id state store (state.py), the result      *)
(* parser (_extract_json, parse_action_items), the seen-ids instruction of *)
(* the prompt (prompt.py) and the run pipeline (run_agent) of agent.py,    *)
(* with the notification and action-log collaborators reduced to their     *)
(* effect and their failure modes.                                         *)
(*                                                                         *)
(* Specifications:                                                         *)
(*   Spec        one run after another of run_agent (save_state atomic)    *)
(*   SpecSave    save_state called with arbitrary states, one file-system  *)
(*               step at a time, interruptible between steps               *)
(*   SpecExtract _extract_json applied to every short reply text           *)
(*   SpecRecon   the reconciliation of run_agent applied twice to one      *)
(*               prior state, then once more to its own result             *)
(*   SpecParse   parse_action_items and the rest of the run on every raw   *)
(*               item of a small vocabulary                                *)
(*   SpecTwo     two processes running run_agent against one state file    *)
(***************************************************************************)
EXTENDS Integers, Sequences, FiniteSets, TLC

VARIABLES
    stateFile,                 \* STATE_FILE on disk
    tempFile,                  \* the NamedTemporaryFile of the save_state call in progress
    actionLog,                 \* ACTION_ITEMS_FILE: "absent" or "present"
    pc,                        \* position of the process
    dry_run,                   \* run_agent(dry_run=...)
    force,                     \* run_agent(force=...)
    seen_filter,               \* build_system_prompt: the seen-ids instruction
    state,                     \* run_agent: state / save_state: state
    seen_message_ids,          \* run_agent local
    seen_secondary_event_ids,  \* run_agent local
    result_data,               \* run_agent local
    action_items,              \* run_agent local
    new_msg_ids,               \* run_agent local
    new_secondary_ids,         \* run_agent local
    message,                   \* what the ResultMessage of this run carried
    result_from,               \* which assignment set result_data (line 245 or 253)
    collab,                    \* what the collaborators did in this run
    outcome,                   \* how the run ended
    save_arg,                  \* the state save_state was called with
    ended_at,                  \* pc at which the process was interrupted
    x_text, x_result, x_pc,    \* SpecExtract: reply text, _extract_json result
    r_prior, r_input, r_first, r_second, r_third, r_pc,  \* SpecRecon
    procs                      \* SpecTwo: the locals of two concurrent processes

fileVars == <<stateFile, tempFile, actionLog>>
runVars == <<pc, dry_run, state, seen_message_ids, seen_secondary_event_ids,
             result_data, action_items, new_msg_ids, new_secondary_ids,
             message, result_from, collab, outcome, save_arg, ended_at,
             force, seen_filter>>
extractVars == <<x_text, x_result, x_pc>>
reconVars == <<r_prior, r_input, r_first, r_second, r_third, r_pc>>
vars == <<fileVars, runVars, extractVars, reconVars, procs>>

----------------------------------------------------------------------------
(* Bounds.  MAX_SEEN_IDS stands for config.MAX_SEEN_IDS (500), scaled down *)
(* so that the id lists overflow within the model.                         *)

MAX_SEEN_IDS == 2
MaxTextLen == 5

\* The lengths of the two skip lists of the prompt (200 and 100 at
\* prompt.py:62-63), scaled down with MAX_SEEN_IDS.
SKIP_LIST_MESSAGE_IDS == 1
SKIP_LIST_EVENT_IDS == 1

Ids == 1..(MAX_SEEN_IDS + 1)          \* message ids the agent can report
SecIds == {1}                         \* secondary calendar event ids
SaveIds == {1, 2}                     \* ids in the lists handed to save_state in SpecSave

None == [none |-> TRUE]               \* Python None

----------------------------------------------------------------------------
(* Sequences and sets.                                                     *)

Range(s) == {s[i] : i \in 1..Len(s)}

SeqsUpTo(S, n) == UNION {[1..k -> S] : k \in 0..n}

\* list(a_set): a Python set of str iterates in hash order, which is
\* randomized per process; every order of the elements can come out.
RECURSIVE ListsOfSet(_)
ListsOfSet(S) ==
    IF S = {} THEN {<<>>}
    ELSE UNION {{<<x>> \o l : l \in ListsOfSet(S \ {x})} : x \in S}

\* the elements of a set of numbers in ascending order
SortedList(S) ==
    CHOOSE l \in ListsOfSet(S) : \A i, j \in 1..Cardinality(S) : i < j => l[i] < l[j]

----------------------------------------------------------------------------
(* state.py: the state file and the run-state document.                    *)

NoneStr == "None"                     \* None where a string is expected

AbsentFile == [kind |-> "absent"]     \* STATE_FILE does not exist
GarbageFile == [kind |-> "garbage"]   \* content json.load rejects
PartialFile == [kind |-> "partial"]   \* a file json.dump has not finished writing
ValueFile == [kind |-> "json_value"]  \* valid JSON that is no object: [], 42, null
BinaryFile == [kind |-> "binary"]     \* bytes that are not UTF-8
JsonFile(st) == [kind |-> "json", data |-> st]

\* a JSON value that is not an object (json.loads of "n", json.load of a
\* ValueFile)
JsonValue == [value |-> TRUE]

\* the call did not return: an exception left it
Raised == [raised |-> TRUE]

DefaultState ==
    [seen_message_ids |-> <<>>,
     seen_secondary_event_ids |-> <<>>,
     last_check |-> NoneStr,
     last_action_items |-> <<>>]

\* dict.get(key, default)
Get(d, k, default) == IF k \in DOMAIN d THEN d[k] ELSE default

\* json.load returns whatever JSON value the file holds; the except clause
\* of line 17 names JSONDecodeError and IOError, and the UnicodeDecodeError
\* of a file that is not UTF-8 is neither
load_state(file) ==
    IF file.kind = "json" THEN file.data
    ELSE IF file.kind = "json_value" THEN JsonValue
    ELSE IF file.kind = "binary" THEN Raised
    ELSE DefaultState

\* a faulty variant: the first MAX_SEEN_IDS entries kept instead of the last
truncate_head(ids) ==
    IF Len(ids) > MAX_SEEN_IDS THEN SubSeq(ids, 1, MAX_SEEN_IDS) ELSE ids

\* ids[-MAX_SEEN_IDS:], taken only when the list is longer than MAX_SEEN_IDS
truncate_ids(ids) ==
    IF Len(ids) > MAX_SEEN_IDS
    THEN SubSeq(ids, Len(ids) - MAX_SEEN_IDS + 1, Len(ids))
    ELSE ids

\* lines 35-39 of save_state: both lists cut, each on its own length
truncate_state(st) ==
    [st EXCEPT !.seen_message_ids = truncate_ids(st.seen_message_ids),
               !.seen_secondary_event_ids = truncate_ids(st.seen_secondary_event_ids)]

----------------------------------------------------------------------------
(* prompt.py: the seen-ids instruction of build_system_prompt.             *)

\* ids[-n:] for n > 0
last_ids(ids, n) ==
    IF Len(ids) > n THEN SubSeq(ids, Len(ids) - n + 1, Len(ids)) ELSE ids

NoFilter == [mode |-> "none"]         \* no prompt built yet

\* lines 58-70 of build_system_prompt
build_seen_filter(seen_msg, seen_sec, force_mode) ==
    IF force_mode
    THEN [mode |-> "force", messages |-> <<>>, events |-> <<>>]
    ELSE [mode |-> "skip",
          messages |-> last_ids(seen_msg, SKIP_LIST_MESSAGE_IDS),
          events |-> last_ids(seen_sec, SKIP_LIST_EVENT_IDS)]

----------------------------------------------------------------------------
(* agent.py: _extract_json.  A reply text is a sequence of tokens:         *)
(*   "J" the marker ```json      "F" the marker ```                        *)
(*   "L" {    "R" }    "k" the members of a JSON object                    *)
(*   "n" a JSON value that is no object    "p" prose    "w" whitespace     *)

Tokens == {"J", "F", "L", "R", "k", "n", "p", "w"}

\* text.find("```", ...) also finds the three backticks that open ```json
Fences == {"J", "F"}

\* str.find of one of the markers `toks` from position `from`
\* (1-based; 0 when not found)
FindFrom(text, from, toks) ==
    LET hits == {i \in from..Len(text) : text[i] \in toks}
    IN  IF hits = {} THEN 0 ELSE CHOOSE i \in hits : \A j \in hits : i <= j

\* str.rfind (0 when not found)
RFind(text, toks) ==
    LET hits == {i \in 1..Len(text) : text[i] \in toks}
    IN  IF hits = {} THEN 0 ELSE CHOOSE i \in hits : \A j \in hits : i >= j

\* str.strip()
RECURSIVE LStrip(_)
LStrip(s) == IF s # <<>> /\ Head(s) = "w" THEN LStrip(Tail(s)) ELSE s
RECURSIVE RStrip(_)
RStrip(s) ==
    IF s # <<>> /\ s[Len(s)] = "w" THEN RStrip(SubSeq(s, 1, Len(s) - 1)) ELSE s
Strip(s) == RStrip(LStrip(s))

\* the text with its whitespace tokens removed
NoSpace(s) == SelectSeq(s, LAMBDA t : t # "w")

\* json.loads: "object" for a JSON object, "value" for any other JSON value,
\* "error" for JSONDecodeError
json_loads(s) ==
    LET body == NoSpace(s)
    IN  IF body = <<"L", "R">> \/ body = <<"L", "k", "R">> THEN "object"
        ELSE IF body = <<"n">> THEN "value"
        ELSE "error"

\* the text json.loads is given at line 117
extracted_text(text) ==
    IF \E i \in 1..Len(text) : text[i] = "J"
    THEN LET start == FindFrom(text, 1, {"J"}) + 1
             end == FindFrom(text, start, Fences)
         IN  IF end # 0 THEN Strip(SubSeq(text, start, end - 1)) ELSE text
    ELSE IF \E i \in 1..Len(text) : text[i] = "F"
    THEN LET start == FindFrom(text, 1, {"F"}) + 1
             end == FindFrom(text, start, Fences)
         IN  IF end # 0 THEN Strip(SubSeq(text, start, end - 1)) ELSE text
    ELSE IF \E i \in 1..Len(text) : text[i] = "L"
    THEN LET start == FindFrom(text, 1, {"L"})
             end == RFind(text, {"R"})
         IN  IF end > start THEN SubSeq(text, start, end) ELSE text
    ELSE text

extract_json(text) == json_loads(extracted_text(text))

----------------------------------------------------------------------------
(* agent.py: parse_action_items.  A sender is a sequence of characters.    *)

LowerChar(c) ==
    CASE c = "H" -> "h"
      [] c = "R" -> "r"
      [] OTHER -> c

\* str.lower()
Lower(s) == [i \in 1..Len(s) |-> LowerChar(s[i])]

\* pattern in sender
Contains(pattern, s) ==
    \E i \in 0..(Len(s) - Len(pattern)) : SubSeq(s, i + 1, i + Len(pattern)) = pattern

\* config.HIGH_PRIORITY_SENDERS: "hr@" and "legal@" of the fifteen patterns
HIGH_PRIORITY_SENDERS ==
    << <<"h", "r", "@">>, <<"l", "e", "g", "a", "l", "@">> >>

Unknown == <<"(unknown)">>

\* a faulty variant: only the first pattern tried
sender_matches_first_only(patterns, sender) ==
    patterns # <<>> /\ Contains(Head(patterns), sender)

\* lines 74-78: for pattern in HIGH_PRIORITY_SENDERS: if pattern in sender:
\* ...; break
RECURSIVE sender_matches(_, _)
sender_matches(patterns, sender) ==
    IF patterns = <<>> THEN FALSE
    ELSE IF Contains(Head(patterns), sender) THEN TRUE
    ELSE sender_matches(Tail(patterns), sender)

parse_item(item_data) ==
    LET sender == Lower(Get(item_data, "sender", Unknown))
        priority == Get(item_data, "priority", "MEDIUM")
        source_type == Get(item_data, "source_type", "email")
        create_task0 == Get(item_data, "create_task", FALSE)
        create_task ==
            \/ create_task0
            \/ priority = "HIGH"
            \/ source_type = "gemini_notes"
            \/ source_type = "starred"
            \/ sender_matches(HIGH_PRIORITY_SENDERS, sender)
    IN  [id |-> Get(item_data, "id", 0),
         subject |-> Get(item_data, "subject", "(unknown)"),
         sender |-> Get(item_data, "sender", Unknown),
         priority |-> priority,
         action |-> Get(item_data, "action", ""),
         notified_at |-> "now",
         due_date |-> Get(item_data, "due_date", NoneStr),
         create_task |-> create_task,
         task_created |-> Get(item_data, "task_created", FALSE),
         source_type |-> source_type,
         related_meeting |-> Get(item_data, "related_meeting", NoneStr),
         group |-> NoneStr]

parse_action_items(result) ==
    LET raw == Get(result, "action_items", <<>>)
    IN  [i \in 1..Len(raw) |-> parse_item(raw[i])]

----------------------------------------------------------------------------
(* What the external agent can send.                                       *)

\* one raw action item: an upper-case HR sender, low priority, grouped
ItemHR ==
    [id |-> 1, subject |-> "Benefits", sender |-> <<"H", "R", "@", "x">>,
     priority |-> "LOW", action |-> "enrol", due_date |-> NoneStr,
     create_task |-> FALSE, task_created |-> FALSE, source_type |-> "email",
     related_meeting |-> NoneStr, group |-> "Onboarding"]

RawItemLists == {<<>>, <<ItemHR>>}

\* the JSON object of a reply (output_format schema, lines 154-231)
Payloads ==
    {[processed_message_ids |-> m, processed_secondary_event_ids |-> e,
      action_items |-> a] :
        m \in {SortedList(T) : T \in SUBSET Ids},
        e \in {SortedList(T) : T \in SUBSET SecIds},
        a \in RawItemLists}

EmptyPayload ==
    [processed_message_ids |-> <<>>, processed_secondary_event_ids |-> <<>>,
     action_items |-> <<>>]

\* ResultMessage.result: empty, a fenced object, prose, a value that is
\* no object
ReplyTexts == {<<>>, <<"J", "L", "k", "R", "F">>, <<"p">>, <<"n">>}

NoMessage == [is_error |-> FALSE, result |-> <<>>, structured_output |-> FALSE]

NoCollab == [notify |-> "none", log |-> "none"]

----------------------------------------------------------------------------
(* run_agent, one run after another.                                       *)

TerminalPcs == {"done", "aborted", "raised", "interrupted", "saved"}

ResetLocals ==
    /\ dry_run' = FALSE
    /\ force' = FALSE
    /\ seen_filter' = NoFilter
    /\ state' = DefaultState
    /\ seen_message_ids' = <<>>
    /\ seen_secondary_event_ids' = <<>>
    /\ result_data' = None
    /\ action_items' = <<>>
    /\ new_msg_ids' = <<>>
    /\ new_secondary_ids' = <<>>
    /\ message' = NoMessage
    /\ result_from' = "none"
    /\ collab' = NoCollab
    /\ outcome' = "none"
    /\ save_arg' = DefaultState
    /\ ended_at' = "none"

\* lines 127-139: load_state, the locals read from it and the prompt
StartRun ==
    /\ pc = "idle"
    /\ \E d \in BOOLEAN : dry_run' = d
    /\ \E f \in BOOLEAN : force' = f
    /\ LET loaded == load_state(stateFile)
       IN  IF loaded = Raised
           THEN \* line 128 raises
                /\ pc' = "raised"
                /\ outcome' = "exception"
                /\ UNCHANGED <<state, seen_message_ids, seen_secondary_event_ids,
                               seen_filter>>
           ELSE IF loaded = JsonValue
           THEN \* line 129: .get on a value that is no dict raises AttributeError
                /\ state' = loaded
                /\ pc' = "raised"
                /\ outcome' = "exception"
                /\ UNCHANGED <<seen_message_ids, seen_secondary_event_ids, seen_filter>>
           ELSE /\ state' = loaded
                /\ seen_message_ids' = Get(state', "seen_message_ids", <<>>)
                /\ seen_secondary_event_ids' = Get(state', "seen_secondary_event_ids", <<>>)
                /\ seen_filter' = build_seen_filter(seen_message_ids',
                                                   seen_secondary_event_ids', force')
                /\ pc' = "query"
                /\ UNCHANGED outcome
    /\ UNCHANGED <<result_data, action_items, new_msg_ids, new_secondary_ids,
                   message, result_from, collab, save_arg, ended_at>>
    /\ UNCHANGED <<fileVars, extractVars, reconVars, procs>>

\* lines 242-257: which result the ResultMessage yields
result_choice(text, has_structured) ==
    IF text # <<>> THEN
        (IF extract_json(text) = "error" THEN "malformed" ELSE "text")
    ELSE IF has_structured THEN "structured_output"
    ELSE "no_result"

\* a faulty variant: the dry_run test of line 282 dropped
after_parse_always(dry, items) ==
    IF items # <<>> THEN "notify" ELSE "reconcile"

\* a faulty variant: the state saved before the collaborators are called
after_parse_save_first(dry, items) ==
    IF ~dry THEN "reconcile" ELSE "done"

\* lines 282-304: where the run goes once the action items are parsed
after_parse(dry, items) ==
    IF ~dry THEN (IF items # <<>> THEN "notify" ELSE "reconcile") ELSE "done"

\* a faulty variant: the error result not tested
abort_choice_no_error_check(is_error, choice) ==
    IF choice \in {"malformed", "no_result"} THEN choice ELSE "none"

\* lines 238-240, 246-249, 255-257: the returns that end the run early
abort_choice(is_error, choice) ==
    IF is_error THEN "agent_error"
    ELSE IF choice \in {"malformed", "no_result"} THEN choice
    ELSE "none"

\* lines 234-257: the exchange with the agent and the result it yields.
\* `object` is the JSON object carried by the result that is used: the
\* structured output, or what the text decodes to.
AgentReply ==
    /\ pc = "query"
    /\ \E is_error \in BOOLEAN, text \in ReplyTexts, has_structured \in BOOLEAN :
        LET choice == result_choice(text, has_structured)
            abort == abort_choice(is_error, choice)
            carries_object ==
                /\ abort = "none"
                /\ choice = "text" => extract_json(text) = "object"
        IN  \E object \in (IF carries_object THEN Payloads ELSE {EmptyPayload}) :
            LET data == IF carries_object THEN object ELSE JsonValue
            IN
            /\ message' = [is_error |-> is_error, result |-> text,
                           structured_output |-> has_structured]
            /\ IF abort # "none"
               THEN \* logged, return
                    /\ pc' = "aborted"
                    /\ outcome' = abort
                    /\ UNCHANGED <<result_data, result_from>>
               ELSE /\ pc' = "parsed"
                    /\ result_data' = data
                    /\ result_from' = choice
                    /\ UNCHANGED outcome
    /\ UNCHANGED <<dry_run, state, seen_message_ids, seen_secondary_event_ids,
                   action_items, new_msg_ids, new_secondary_ids, collab, save_arg,
                   ended_at>>
    /\ UNCHANGED <<fileVars, extractVars, reconVars,
                   force, seen_filter, procs>>

\* lines 259-282: the summary, the action items and the dry_run branch; the
\* loop variable `message` is out of use from here on
ParseItems ==
    /\ pc = "parsed"
    /\ IF result_data = JsonValue
       THEN \* line 260: .get on a value that is no dict raises AttributeError
            /\ pc' = "raised"
            /\ outcome' = "exception"
            /\ UNCHANGED action_items
       ELSE /\ action_items' = parse_action_items(result_data)
            /\ pc' = after_parse(dry_run, action_items')
            /\ outcome' = IF pc' = "done" THEN "dry_run" ELSE "none"
    /\ message' = NoMessage
    /\ result_from' = "none"
    /\ UNCHANGED <<dry_run, state, seen_message_ids, seen_secondary_event_ids,
                   result_data, new_msg_ids, new_secondary_ids, collab, save_arg,
                   ended_at>>
    /\ UNCHANGED <<fileVars, extractVars, reconVars,
                   force, seen_filter, procs>>

\* notifications.py send_notification: every failure is caught and logged
SendNotification ==
    /\ pc = "notify"
    /\ \E how \in {"sent", "not_found", "error"} :
        collab' = [collab EXCEPT !.notify = how]
    /\ pc' = "log"
    /\ UNCHANGED <<dry_run, state, seen_message_ids, seen_secondary_event_ids,
                   result_data, action_items, new_msg_ids, new_secondary_ids,
                   message, result_from, outcome, save_arg, ended_at>>
    /\ UNCHANGED <<stateFile, tempFile, actionLog, extractVars, reconVars,
                   force, seen_filter, procs>>

\* action_log.py append_to_action_log: an OSError of open() or write() is
\* not caught, neither there nor at line 286
AppendToActionLog ==
    /\ pc = "log"
    /\ \E how \in {"appended", "io_error"} :
        /\ collab' = [collab EXCEPT !.log = how]
        /\ IF how = "appended"
           THEN /\ actionLog' = "present"
                /\ pc' = "reconcile"
                /\ UNCHANGED outcome
           ELSE /\ UNCHANGED actionLog
                /\ pc' = "raised"
                /\ outcome' = "exception"
    /\ UNCHANGED <<dry_run, state, seen_message_ids, seen_secondary_event_ids,
                   result_data, action_items, new_msg_ids, new_secondary_ids,
                   message, result_from, save_arg, ended_at>>
    /\ UNCHANGED <<stateFile, tempFile, extractVars, reconVars,
                   force, seen_filter, procs>>

\* a faulty variant: only the newly processed ids kept
merged_lists_new_only(seen, new) == ListsOfSet(Range(new))

\* lines 292-297: list(set(seen) | set(new)), in whatever order the set yields
merged_lists(seen, new) == ListsOfSet(Range(seen) \cup Range(new))

\* lines 289-299: the state handed to save_state
reconciled_states(st, seen_msg, seen_sec, new_msg, new_sec, items) ==
    {[st EXCEPT !.seen_message_ids = lm,
                !.seen_secondary_event_ids = ls,
                !.last_check = "now",
                !.last_action_items = items] :
        lm \in merged_lists(seen_msg, new_msg),
        ls \in merged_lists(seen_sec, new_sec)}

\* lines 288-302: the merge and save_state, run to its rename
Reconcile ==
    /\ pc = "reconcile"
    /\ new_msg_ids' = Get(result_data, "processed_message_ids", <<>>)
    /\ new_secondary_ids' = Get(result_data, "processed_secondary_event_ids", <<>>)
    /\ \E st \in reconciled_states(state, seen_message_ids, seen_secondary_event_ids,
                                   new_msg_ids', new_secondary_ids', action_items) :
        /\ save_arg' = st
        /\ state' = truncate_state(st)
        /\ stateFile' = JsonFile(state')
    /\ pc' = "done"
    /\ outcome' = "completed"
    /\ UNCHANGED <<dry_run, seen_message_ids, seen_secondary_event_ids, result_data,
                   action_items, message, result_from, collab, ended_at>>
    /\ UNCHANGED <<tempFile, actionLog, extractVars, reconVars,
                   force, seen_filter, procs>>

\* KeyboardInterrupt or a kill while the process runs.  The temporary file
\* of an interrupted save_state stays on disk under its random name; nothing
\* reads it again, so it is tracked no further.
Interrupt ==
    /\ pc \notin ({"idle"} \cup TerminalPcs)
    /\ pc' = "interrupted"
    /\ outcome' = "interrupted"
    /\ ended_at' = pc
    /\ tempFile' = AbsentFile
    /\ UNCHANGED <<dry_run, state, seen_message_ids, seen_secondary_event_ids,
                   result_data, action_items, new_msg_ids, new_secondary_ids,
                   message, result_from, collab, save_arg>>
    /\ UNCHANGED <<stateFile, actionLog, extractVars, reconVars,
                   force, seen_filter, procs>>

\* the process ends; the next run starts from the files alone
Exit ==
    /\ pc \in TerminalPcs
    /\ pc' = "idle"
    /\ ResetLocals
    /\ UNCHANGED <<fileVars, extractVars, reconVars, procs>>

InitFiles ==
    /\ stateFile \in {AbsentFile, GarbageFile, ValueFile, BinaryFile}
    /\ tempFile = AbsentFile
    /\ actionLog = "absent"

InitRun ==
    /\ pc = "idle"
    /\ dry_run = FALSE
    /\ force = FALSE
    /\ seen_filter = NoFilter
    /\ state = DefaultState
    /\ seen_message_ids = <<>>
    /\ seen_secondary_event_ids = <<>>
    /\ result_data = None
    /\ action_items = <<>>
    /\ new_msg_ids = <<>>
    /\ new_secondary_ids = <<>>
    /\ message = NoMessage
    /\ result_from = "none"
    /\ collab = NoCollab
    /\ outcome = "none"
    /\ save_arg = DefaultState
    /\ ended_at = "none"

InitExtract == x_text = <<>> /\ x_result = "none" /\ x_pc = "off"

InitRecon ==
    /\ r_prior = DefaultState
    /\ r_input = EmptyPayload
    /\ r_first = DefaultState
    /\ r_second = DefaultState
    /\ r_third = DefaultState
    /\ r_pc = "off"

\* the locals of one process of SpecTwo before its first run
IdleProc ==
    [pc |-> "idle", state |-> DefaultState, seen_message_ids |-> <<>>,
     new_msg_ids |-> <<>>, save_arg |-> DefaultState, tempFile |-> AbsentFile,
     stale |-> FALSE]

Procs == {1, 2}

InitProcs == procs = [p \in Procs |-> IdleProc]

Init == InitFiles /\ InitRun /\ InitExtract /\ InitRecon /\ InitProcs

Next ==
    \/ StartRun
    \/ AgentReply
    \/ ParseItems
    \/ SendNotification
    \/ AppendToActionLog
    \/ Reconcile
    \/ Interrupt
    \/ Exit

Spec == Init /\ [][Next]_vars

----------------------------------------------------------------------------
(* save_state, one file-system step at a time (SpecSave).                  *)

\* the states save_state is called with: any two lists of at most
\* MAX_SEEN_IDS + 1 ids, duplicates included
SaveInputs ==
    {[seen_message_ids |-> m, seen_secondary_event_ids |-> e,
      last_check |-> "now", last_action_items |-> <<>>] :
        m \in SeqsUpTo(SaveIds, MAX_SEEN_IDS + 1),
        e \in SeqsUpTo(SaveIds, MAX_SEEN_IDS + 1)}

SaveFrame ==
    UNCHANGED <<dry_run, seen_message_ids, seen_secondary_event_ids, result_data,
                action_items, new_msg_ids, new_secondary_ids, message, result_from,
                collab, outcome, ended_at, actionLog, extractVars, reconVars,
                   force, seen_filter, procs>>

\* save_state(state) is entered
CallSaveState ==
    /\ pc = "idle"
    /\ \E st \in SaveInputs :
        /\ state' = st
        /\ save_arg' = st
    /\ pc' = "save_mkdir"
    /\ UNCHANGED <<stateFile, tempFile>>
    /\ SaveFrame

\* lines 30-32: CONFIG_DIR.mkdir(exist_ok=True) and its chmod
SaveMkdir ==
    /\ pc = "save_mkdir"
    /\ pc' = "save_truncate"
    /\ UNCHANGED <<state, save_arg, stateFile, tempFile>>
    /\ SaveFrame

\* lines 35-39: the two lists cut in the dict that was passed in
SaveTruncate ==
    /\ pc = "save_truncate"
    /\ state' = truncate_state(state)
    /\ pc' = "save_open"
    /\ UNCHANGED <<save_arg, stateFile, tempFile>>
    /\ SaveFrame

\* a faulty variant: the state file itself opened for writing
SaveOpenTemp_inplace ==
    /\ pc = "save_open"
    /\ stateFile' = PartialFile
    /\ tempFile' = PartialFile
    /\ pc' = "save_dump"
    /\ UNCHANGED <<state, save_arg>>
    /\ SaveFrame

\* lines 42-44: NamedTemporaryFile("w", dir=CONFIG_DIR, delete=False)
SaveOpenTemp ==
    /\ pc = "save_open"
    /\ tempFile' = PartialFile
    /\ pc' = "save_dump"
    /\ UNCHANGED <<state, save_arg, stateFile>>
    /\ SaveFrame

\* lines 45-46: json.dump and the close at the end of the with block
SaveDump ==
    /\ pc = "save_dump"
    /\ tempFile' = JsonFile(state)
    /\ pc' = "save_chmod"
    /\ UNCHANGED <<state, save_arg, stateFile>>
    /\ SaveFrame

\* line 48: os.chmod(temp_path, 0o600)
SaveChmod ==
    /\ pc = "save_chmod"
    /\ pc' = "save_rename"
    /\ UNCHANGED <<state, save_arg, stateFile, tempFile>>
    /\ SaveFrame

\* line 49: temp_path.rename(STATE_FILE)
SaveRename ==
    /\ pc = "save_rename"
    /\ stateFile' = tempFile
    /\ tempFile' = AbsentFile
    /\ pc' = "saved"
    /\ UNCHANGED <<state, save_arg>>
    /\ SaveFrame

NextSave ==
    \/ CallSaveState
    \/ SaveMkdir
    \/ SaveTruncate
    \/ SaveOpenTemp
    \/ SaveDump
    \/ SaveChmod
    \/ SaveRename
    \/ Interrupt
    \/ Exit

SpecSave == Init /\ [][NextSave]_vars

----------------------------------------------------------------------------
(* _extract_json on every reply text of at most MaxTextLen tokens          *)
(* (SpecExtract).                                                          *)

InitExtractText ==
    /\ x_text \in SeqsUpTo(Tokens, MaxTextLen)
    /\ x_result = "none"
    /\ x_pc = "text"

\* lines 99-117: _extract_json(text)
ExtractJson ==
    /\ x_pc = "text"
    /\ x_result' = extract_json(x_text)
    /\ x_pc' = "done"
    /\ UNCHANGED <<x_text, fileVars, runVars, reconVars, procs>>

NextExtract == ExtractJson

InitOfExtract == InitFiles /\ InitRun /\ InitRecon /\ InitExtractText /\ InitProcs

SpecExtract == InitOfExtract /\ [][NextExtract]_vars

----------------------------------------------------------------------------
(* Two processes running run_agent against one STATE_FILE with no lock      *)
(* (SpecTwo).  Each run is a non-dry-run run whose reply carries processed  *)
(* message ids and no action items; save_state is taken one file step at a  *)
(* time, each process with the temporary file of its own call.             *)

\* processed_message_ids of a reply in SpecTwo
ProcReplies == {<<>>, <<1>>, <<2>>}

InRun(proc) == proc.pc \in {"query", "reconcile", "save_open", "save_dump", "save_rename"}

ProcFrame == UNCHANGED <<tempFile, actionLog, runVars, extractVars, reconVars>>

\* agent.py lines 127-130
ProcLoadState(p) ==
    /\ procs[p].pc = "idle"
    /\ LET loaded == load_state(stateFile)
       IN  procs' = [procs EXCEPT ![p] =
               IF loaded \in {Raised, JsonValue}
               THEN [@ EXCEPT !.pc = "raised"]
               ELSE [@ EXCEPT !.pc = "query",
                              !.state = loaded,
                              !.seen_message_ids = Get(loaded, "seen_message_ids", <<>>),
                              !.new_msg_ids = <<>>,
                              !.stale = FALSE]]
    /\ UNCHANGED stateFile
    /\ ProcFrame

\* agent.py lines 234-288: the agent's result and its processed ids
ProcAgentReply(p) ==
    /\ procs[p].pc = "query"
    /\ \E new \in ProcReplies :
           procs' = [procs EXCEPT ![p] = [@ EXCEPT !.pc = "reconcile", !.new_msg_ids = new]]
    /\ UNCHANGED stateFile
    /\ ProcFrame

\* agent.py lines 288-301 and state.py lines 30-39: the merge, and the
\* truncation at the start of save_state
ProcReconcile(p) ==
    /\ procs[p].pc = "reconcile"
    /\ \E st \in reconciled_states(procs[p].state, procs[p].seen_message_ids,
                     Get(procs[p].state, "seen_secondary_event_ids", <<>>),
                     procs[p].new_msg_ids, <<>>, <<>>) :
           procs' = [procs EXCEPT ![p] =
                        [@ EXCEPT !.pc = "save_open", !.save_arg = truncate_state(st)]]
    /\ UNCHANGED stateFile
    /\ ProcFrame

\* a faulty variant: the state file itself opened for writing
ProcOpenTemp_inplace(p) ==
    /\ procs[p].pc = "save_open"
    /\ procs' = [procs EXCEPT ![p] = [@ EXCEPT !.pc = "save_dump", !.tempFile = PartialFile]]
    /\ stateFile' = PartialFile
    /\ ProcFrame

\* state.py lines 42-44: a NamedTemporaryFile of this call, under a name of
\* its own
ProcOpenTemp(p) ==
    /\ procs[p].pc = "save_open"
    /\ procs' = [procs EXCEPT ![p] = [@ EXCEPT !.pc = "save_dump", !.tempFile = PartialFile]]
    /\ UNCHANGED stateFile
    /\ ProcFrame

\* state.py lines 45-48
ProcDump(p) ==
    /\ procs[p].pc = "save_dump"
    /\ procs' = [procs EXCEPT ![p] =
                    [@ EXCEPT !.pc = "save_rename", !.tempFile = JsonFile(procs[p].save_arg)]]
    /\ UNCHANGED stateFile
    /\ ProcFrame

\* state.py line 49; every other process in a run now holds a state that is
\* no longer the one on disk
ProcRename(p) ==
    /\ procs[p].pc = "save_rename"
    /\ stateFile' = procs[p].tempFile
    /\ procs' = [q \in Procs |->
                    IF q = p THEN [procs[q] EXCEPT !.pc = "done", !.tempFile = AbsentFile]
                    ELSE IF InRun(procs[q]) THEN [procs[q] EXCEPT !.stale = TRUE]
                    ELSE procs[q]]
    /\ ProcFrame

\* the process ends
ProcExit(p) ==
    /\ procs[p].pc \in {"done", "raised"}
    /\ procs' = [procs EXCEPT ![p] = [@ EXCEPT !.pc = "idle"]]
    /\ UNCHANGED stateFile
    /\ ProcFrame

NextTwo ==
    \E p \in Procs :
        \/ ProcLoadState(p)
        \/ ProcAgentReply(p)
        \/ ProcReconcile(p)
        \/ ProcOpenTemp(p)
        \/ ProcDump(p)
        \/ ProcRename(p)
        \/ ProcExit(p)

SpecTwo == Init /\ [][NextTwo]_vars

----------------------------------------------------------------------------
(* parse_action_items and what follows it in run_agent, on every raw item  *)
(* of a small vocabulary (SpecParse).                                      *)

NoField == [f \in {} |-> FALSE]       \* a key the agent left out

Field(k, v) == [f \in {k} |-> v]

\* the fields every raw item of SpecParse carries
ItemBase ==
    [id |-> 1, subject |-> "Benefits", action |-> "enrol", due_date |-> "2025-01-31",
     task_created |-> FALSE, related_meeting |-> "Kickoff"]

ItemSenders ==
    {<<"H", "R", "@", "x">>, <<"x", "h", "r", "@">>, <<"l", "e", "g", "a", "l", "@">>,
     <<"x", "@", "y">>}

\* raw items: each of sender, priority, source_type, create_task and group
\* left out or given one of its values
RawItems ==
    {ItemBase @@ s @@ p @@ t @@ c @@ g :
        s \in {NoField} \cup {Field("sender", v) : v \in ItemSenders},
        p \in {NoField} \cup {Field("priority", v) : v \in {"HIGH", "MEDIUM", "LOW"}},
        t \in {NoField} \cup {Field("source_type", v) :
                                 v \in {"email", "gemini_notes", "starred", "calendar_prep"}},
        c \in {NoField} \cup {Field("create_task", v) : v \in BOOLEAN},
        g \in {NoField} \cup {Field("group", v) : v \in {"Onboarding", NoneStr}}}

\* the run has its result (line 259): a reply with one raw item, against
\* the state file as found
InitParse ==
    /\ pc = "parsed"
    /\ dry_run \in BOOLEAN
    /\ force = FALSE
    /\ seen_filter = build_seen_filter(<<>>, <<>>, force)
    /\ state = load_state(stateFile)
    /\ seen_message_ids = <<>>
    /\ seen_secondary_event_ids = <<>>
    /\ \E item \in RawItems :
           result_data = [processed_message_ids |-> <<1>>,
                          processed_secondary_event_ids |-> <<>>,
                          action_items |-> <<item>>]
    /\ action_items = <<>>
    /\ new_msg_ids = <<>>
    /\ new_secondary_ids = <<>>
    /\ message = NoMessage
    /\ result_from = "text"
    /\ collab = NoCollab
    /\ outcome = "none"
    /\ save_arg = DefaultState
    /\ ended_at = "none"

NextParse ==
    \/ ParseItems
    \/ SendNotification
    \/ AppendToActionLog
    \/ Reconcile

InitOfParse == InitFiles /\ InitParse /\ InitExtract /\ InitRecon /\ InitProcs

SpecParse == InitOfParse /\ [][NextParse]_vars

----------------------------------------------------------------------------
(* The reconciliation of run_agent as a relation from the loaded state and *)
(* the reply to the state persisted (SpecRecon).                           *)

\* lines 129-130 and 288-301, save_state included: the states one
\* reconciliation of `payload` and `items` against the loaded `st` can persist
persisted_states(st, payload, items) ==
    {truncate_state(m) :
        m \in reconciled_states(st,
                 Get(st, "seen_message_ids", <<>>),
                 Get(st, "seen_secondary_event_ids", <<>>),
                 Get(payload, "processed_message_ids", <<>>),
                 Get(payload, "processed_secondary_event_ids", <<>>),
                 items)}

\* the states a run can find on disk: lists without duplicates within the cap
PriorStates ==
    {[seen_message_ids |-> m, seen_secondary_event_ids |-> e,
      last_check |-> "now", last_action_items |-> <<>>] :
        m \in UNION {ListsOfSet(T) :
                        T \in {U \in SUBSET Ids : Cardinality(U) <= MAX_SEEN_IDS}},
        e \in UNION {ListsOfSet(T) : T \in SUBSET SecIds}}

InitReconInputs ==
    /\ r_prior \in PriorStates
    /\ r_input \in Payloads
    /\ r_first = DefaultState
    /\ r_second = DefaultState
    /\ r_third = DefaultState
    /\ r_pc = "start"

\* a first run against the prior state
ReconFirst ==
    /\ r_pc = "start"
    /\ r_first' \in persisted_states(r_prior, r_input, parse_action_items(r_input))
    /\ r_pc' = "first"
    /\ UNCHANGED <<r_prior, r_input, r_second, r_third, fileVars, runVars, extractVars,
                   procs>>

\* the same reply reconciled against the same prior state once more
ReconSecond ==
    /\ r_pc = "first"
    /\ r_second' \in persisted_states(r_prior, r_input, parse_action_items(r_input))
    /\ r_pc' = "second"
    /\ UNCHANGED <<r_prior, r_input, r_first, r_third, fileVars, runVars, extractVars,
                   procs>>

\* the same reply reconciled against the result of the first run
ReconAgain ==
    /\ r_pc = "second"
    /\ r_third' \in persisted_states(r_first, r_input, parse_action_items(r_input))
    /\ r_pc' = "third"
    /\ UNCHANGED <<r_prior, r_input, r_first, r_second, fileVars, runVars, extractVars,
                   procs>>

NextRecon ==
    \/ ReconFirst
    \/ ReconSecond
    \/ ReconAgain

InitOfRecon == InitFiles /\ InitRun /\ InitExtract /\ InitReconInputs /\ InitProcs

SpecRecon == InitOfRecon /\ [][NextRecon]_vars

----------------------------------------------------------------------------
(* Properties of the runs (Spec).                                          *)

Pos(s, x) == CHOOSE i \in 1..Len(s) : s[i] = x

RunCompleted == pc = "done" /\ outcome = "completed"

\* ids dropped by a completed run are the oldest of the loaded list, and no
\* id first reported by this run is dropped
FifoEvicted(loaded, new, kept) ==
    LET fresh == Range(new) \ Range(loaded)
        dropped == (Range(loaded) \cup Range(new)) \ Range(kept)
    IN  Cardinality(fresh) <= MAX_SEEN_IDS =>
            /\ fresh \subseteq Range(kept)
            /\ \A d \in dropped, k \in Range(kept) \ fresh :
                   Pos(loaded, d) < Pos(loaded, k)

\* C1: after every completed non-dry-run run the ids evicted from
\* seen_message_ids and seen_secondary_event_ids are the ones added earliest,
\* and every id first reported by this run is retained.
C1_FifoEviction ==
    RunCompleted =>
        /\ FifoEvicted(seen_message_ids, new_msg_ids, stateFile.data.seen_message_ids)
        /\ FifoEvicted(seen_secondary_event_ids, new_secondary_ids,
                       stateFile.data.seen_secondary_event_ids)

NoDuplicates(s) == Cardinality(Range(s)) = Len(s)

WithinCap(loaded, new) == Cardinality(Range(loaded) \cup Range(new)) <= MAX_SEEN_IDS

\* C4: from the start of a dry run to its end no step changes the state
\* file or the action log, no step leads to the notification, the log append
\* or the save, and no collaborator is recorded as called.
C4_DryRunPure ==
    [][(dry_run /\ pc # "idle") =>
          /\ stateFile' = stateFile
          /\ actionLog' = actionLog
          /\ pc' \notin {"notify", "log", "reconcile"}
          /\ collab' = NoCollab]_vars

C4_Witness ==
    /\ dry_run
    /\ pc = "done"
    /\ action_items # <<>>
    /\ result_data.processed_message_ids # <<>>
    /\ stateFile.kind = "json"

\* C5: after a completed non-dry-run run whose merged ids stay within
\* MAX_SEEN_IDS the persisted lists hold, without duplicates, exactly the
\* loaded ids together with the processed ids, with or without action items.
C5_UnionPersisted ==
    (/\ RunCompleted
     /\ WithinCap(seen_message_ids, new_msg_ids)
     /\ WithinCap(seen_secondary_event_ids, new_secondary_ids)) =>
        /\ stateFile.kind = "json"
        /\ Range(stateFile.data.seen_message_ids)
             = Range(seen_message_ids) \cup Range(new_msg_ids)
        /\ NoDuplicates(stateFile.data.seen_message_ids)
        /\ Range(stateFile.data.seen_secondary_event_ids)
             = Range(seen_secondary_event_ids) \cup Range(new_secondary_ids)
        /\ NoDuplicates(stateFile.data.seen_secondary_event_ids)
        /\ new_msg_ids = result_data.processed_message_ids
        /\ new_secondary_ids = result_data.processed_secondary_event_ids

C5_Witness ==
    /\ RunCompleted
    /\ action_items = <<>>
    /\ seen_message_ids # <<>>
    /\ Range(new_msg_ids) \ Range(seen_message_ids) # {}
    /\ WithinCap(seen_message_ids, new_msg_ids)
    /\ seen_secondary_event_ids # <<>>
    /\ new_secondary_ids # <<>>

\* the three failures of the exchange: an error result, a text that cannot
\* be decoded, neither text nor structured output
ExchangeFailed(m) ==
    \/ m.is_error
    \/ m.result # <<>> /\ extract_json(m.result) = "error"
    \/ m.result = <<>> /\ ~m.structured_output

\* C7: a failed exchange ends the run at once, and from there to the end of
\* the process the state file and the action log are
\* untouched and no collaborator is called, so that the state file still
\* loads as the state this run loaded.
C7_AbortLeavesState ==
    [][/\ (pc = "query" /\ pc' # "interrupted" /\ ExchangeFailed(message')) =>
              pc' = "aborted"
       /\ (pc' = "aborted" \/ pc = "aborted") =>
              /\ stateFile' = stateFile
              /\ actionLog' = actionLog
              /\ collab' = NoCollab
              /\ pc' = "aborted" => load_state(stateFile') = state']_vars

C7_Witness ==
    /\ pc = "aborted"
    /\ outcome = "agent_error"
    /\ ~dry_run
    /\ stateFile.kind = "json"
    /\ stateFile.data.seen_message_ids # <<>>

CollaboratorFailed ==
    collab.notify \in {"not_found", "error"} \/ collab.log = "io_error"

\* C8: a non-dry-run run with action items in which the notification or the
\* action log failed still ends completed, with the merged state saved.
C8_CollaboratorFailureKeepsSave ==
    (pc \in {"done", "aborted", "raised"} /\ CollaboratorFailed) =>
        /\ RunCompleted
        /\ stateFile = JsonFile(state)

\* C9: a structured output, when the final message carries one, is the
\* result used; the text is used only without one; a run with neither ends
\* with the no-result condition.
C9_StructuredOutputFirst ==
    (pc \in {"parsed", "aborted"} /\ ~message.is_error) =>
        /\ message.structured_output =>
               result_from = "structured_output" /\ outcome # "malformed"
        /\ (~message.structured_output /\ message.result # <<>>
               /\ outcome # "malformed") => result_from = "text"
        /\ (~message.structured_output /\ message.result = <<>>) =>
               outcome = "no_result"

\* a text with no fence marker and no brace
PlainText(text) ==
    text # <<>> /\ \A i \in 1..Len(text) : text[i] \notin {"J", "F", "L", "R"}

\* C11: a non-empty reply text with no fence marker and no brace (and no
\* error flag) always ends the run through the handled malformed-reply
\* return: the run never goes on to parsing with it.
C11_PlainTextMalformed ==
    (pc \in {"parsed", "aborted"} /\ ~message.is_error /\ PlainText(message.result)) =>
        pc = "aborted" /\ outcome = "malformed"

\* C15: in a run the notification comes first, then the action-log append,
\* then the save, which is the last step and the only one that changes the
\* state file; a run interrupted before it leaves the state file loading as
\* the state and the seen ids the run itself loaded, and the next run loads
\* the state file as it stands.
C15_SaveLast ==
    [][/\ pc' = "log" => pc = "notify"
       /\ pc' = "reconcile" =>
              IF action_items' # <<>>
              THEN pc = "log" /\ collab.notify # "none" /\ collab'.log = "appended"
              ELSE pc = "parsed" /\ collab' = NoCollab
       /\ stateFile' # stateFile => pc = "reconcile" /\ pc' = "done"
       /\ pc = "reconcile" => pc' \in {"done", "interrupted"}
       /\ pc = "done" => pc' = "idle" /\ stateFile' = stateFile
       /\ (pc' = "interrupted" \/ pc = "interrupted") =>
              /\ stateFile' = stateFile
              /\ pc' = "interrupted" =>
                     /\ load_state(stateFile') = state'
                     /\ seen_message_ids' = Get(state', "seen_message_ids", <<>>)
                     /\ seen_secondary_event_ids'
                          = Get(state', "seen_secondary_event_ids", <<>>)
       /\ (pc = "idle" /\ pc' = "query") => state' = load_state(stateFile)]_vars

C15_Witness ==
    /\ pc = "interrupted"
    /\ ended_at = "reconcile"
    /\ collab = [notify |-> "sent", log |-> "appended"]
    /\ stateFile.kind = "json"
    /\ Range(result_data.processed_message_ids) \ Range(seen_message_ids) # {}

\* C16: in a run without force every loaded seen message id and every loaded
\* seen event id is in the skip lists of the prompt; in a run with force the
\* prompt lists no id.
C16_SkipListsComplete ==
    seen_filter # NoFilter =>
        IF force
        THEN seen_filter.mode = "force" /\ seen_filter.messages = <<>>
                /\ seen_filter.events = <<>>
        ELSE /\ Range(seen_message_ids) \subseteq Range(seen_filter.messages)
             /\ Range(seen_secondary_event_ids) \subseteq Range(seen_filter.events)

\* the run failed before it had a result or called a collaborator
RaisedAtLoad == pc = "raised" /\ result_data = None /\ collab = NoCollab

\* C13: a run that found the state file missing or holding anything but a
\* run-state document got the default empty state from load_state and went
\* on with empty seen lists; it did not fail at the load.
C13_LoadStateDefault ==
    (pc # "idle" /\ stateFile.kind # "json") =>
        /\ state = DefaultState
        /\ seen_message_ids = <<>>
        /\ seen_secondary_event_ids = <<>>
        /\ ~RaisedAtLoad

----------------------------------------------------------------------------
(* Properties of save_state (SpecSave).                                    *)

Min(a, b) == IF a <= b THEN a ELSE b

\* out is the last min(Len(in), MAX_SEEN_IDS) elements of in, in order
IsTailOf(out, in) ==
    /\ Len(out) = Min(Len(in), MAX_SEEN_IDS)
    /\ \A i \in 1..Len(out) : out[i] = in[Len(in) - Len(out) + i]

\* C2: the state file never holds more than MAX_SEEN_IDS ids in either
\* list, and after each save_state call each list on disk is the tail of
\* the list passed in, cut on its own length; the other fields are written
\* as passed.
C2_SaveBounded ==
    /\ stateFile.kind = "json" =>
           /\ Len(stateFile.data.seen_message_ids) <= MAX_SEEN_IDS
           /\ Len(stateFile.data.seen_secondary_event_ids) <= MAX_SEEN_IDS
    /\ pc = "saved" =>
           /\ stateFile.kind = "json"
           /\ IsTailOf(stateFile.data.seen_message_ids, save_arg.seen_message_ids)
           /\ IsTailOf(stateFile.data.seen_secondary_event_ids,
                       save_arg.seen_secondary_event_ids)
           /\ stateFile.data.last_check = save_arg.last_check
           /\ stateFile.data.last_action_items = save_arg.last_action_items

C2_Witness ==
    /\ pc = "saved"
    /\ Len(save_arg.seen_message_ids) > MAX_SEEN_IDS
    /\ save_arg.seen_message_ids[1] # save_arg.seen_message_ids[MAX_SEEN_IDS + 1]
    /\ Len(save_arg.seen_secondary_event_ids) \in 1..MAX_SEEN_IDS

\* C3: the state file changes in one step only, the rename, and then to the
\* complete new state; every other step of save_state, and an interruption
\* at any of them, leaves it as it was before the call.
C3_SaveAtomic ==
    [][stateFile' # stateFile =>
          /\ pc = "save_rename"
          /\ pc' = "saved"
          /\ stateFile' = JsonFile(truncate_state(save_arg))]_vars

C3_Witness ==
    /\ pc = "interrupted"
    /\ ended_at = "save_dump"
    /\ stateFile.kind = "json"
    /\ stateFile.data # truncate_state(save_arg)

----------------------------------------------------------------------------
(* Properties of parse_action_items (SpecParse).                           *)

ItemsParsed == pc \in {"notify", "log", "reconcile", "done", "raised"}

RawItem == result_data.action_items[1]

\* the override as the disjunction of its five conditions, the patterns
\* taken as a set
ForcedOr(raw) ==
    \/ Get(raw, "create_task", FALSE)
    \/ Get(raw, "priority", "MEDIUM") = "HIGH"
    \/ Get(raw, "source_type", "email") \in {"gemini_notes", "starred"}
    \/ \E pattern \in Range(HIGH_PRIORITY_SENDERS) :
           Contains(pattern, Lower(Get(raw, "sender", Unknown)))

\* C12: the create_task of every parsed item is the agent's create_task OR
\* priority HIGH OR source_type gemini_notes OR starred OR a high-priority
\* pattern inside the lower-cased sender; a true of the agent stays true, and
\* every order of the patterns gives the same match.
C12_ForcedCreateTask ==
    ItemsParsed =>
        /\ Len(action_items) = 1
        /\ action_items[1].create_task = ForcedOr(RawItem)
        /\ Get(RawItem, "create_task", FALSE) => action_items[1].create_task
        /\ \A order \in ListsOfSet(Range(HIGH_PRIORITY_SENDERS)) :
               sender_matches(order, Lower(Get(RawItem, "sender", Unknown)))
                 = sender_matches(HIGH_PRIORITY_SENDERS,
                                  Lower(Get(RawItem, "sender", Unknown)))

C12_Witness ==
    /\ ItemsParsed
    /\ Get(RawItem, "create_task", FALSE) = FALSE
    /\ Get(RawItem, "priority", "MEDIUM") = "LOW"
    /\ Get(RawItem, "source_type", "email") = "calendar_prep"
    /\ Get(RawItem, "sender", Unknown) = <<"l", "e", "g", "a", "l", "@">>
    /\ action_items[1].create_task

\* C14: the sender of every parsed item is the lower-cased sender of the raw
\* item, priority and source_type are the raw values or MEDIUM and email, an
\* absent create_task counts as false, and a completed run persists the items
\* so parsed, lower-cased sender included, in last_action_items.
C14_SenderLowerCased ==
    ItemsParsed =>
        /\ action_items[1].sender = Lower(Get(RawItem, "sender", Unknown))
        /\ action_items[1].priority = Get(RawItem, "priority", "MEDIUM")
        /\ action_items[1].source_type = Get(RawItem, "source_type", "email")
        /\ "create_task" \notin DOMAIN RawItem =>
               action_items[1].create_task = ForcedOr(RawItem)
        /\ RunCompleted =>
               /\ stateFile.data.last_action_items = action_items
               /\ stateFile.data.last_action_items[1].sender
                    = Lower(Get(RawItem, "sender", Unknown))

\* C18: the group the agent reports for an item is the group of the parsed
\* item and of the item persisted in last_action_items by a completed run,
\* as id, subject, action, due_date and related_meeting are.
C18_GroupCarried ==
    ItemsParsed =>
        /\ action_items[1].group = Get(RawItem, "group", NoneStr)
        /\ action_items[1].id = RawItem.id
        /\ action_items[1].subject = RawItem.subject
        /\ action_items[1].action = RawItem.action
        /\ action_items[1].due_date = RawItem.due_date
        /\ action_items[1].related_meeting = RawItem.related_meeting
        /\ RunCompleted =>
               stateFile.data.last_action_items[1].group = Get(RawItem, "group", NoneStr)

----------------------------------------------------------------------------
(* Properties of concurrent runs (SpecTwo).                                *)

FileIds(file) == Range(Get(load_state(file), "seen_message_ids", <<>>))

Renames(p) == procs[p].pc = "save_rename" /\ procs'[p].pc = "done"

\* C17: the state file changes only by the rename of some process, and then
\* to the complete state that process saved, never to a partial or mixed
\* file; it then holds ids that process loaded or processed and no others,
\* so ids only another process reported are not in it; a process during
\* whose run no other process saved loses none of the ids on disk nor of
\* its own while the total stays within MAX_SEEN_IDS.
C17_LastRenameWins ==
    [][/\ stateFile' # stateFile => \E p \in Procs : Renames(p)
       /\ stateFile'.kind # "partial"
       /\ \A p \in Procs : Renames(p) =>
              /\ stateFile' = JsonFile(procs[p].save_arg)
              /\ FileIds(stateFile') \subseteq
                     Range(procs[p].seen_message_ids) \cup Range(procs[p].new_msg_ids)
              /\ (/\ ~procs[p].stale
                  /\ Cardinality(FileIds(stateFile) \cup Range(procs[p].new_msg_ids))
                        <= MAX_SEEN_IDS) =>
                     FileIds(stateFile')
                       = FileIds(stateFile) \cup Range(procs[p].new_msg_ids)]_vars

\* both runs loaded before either saved; process 1 renamed last and the id
\* only process 2 processed is lost, with room for it under the cap
C17_Witness ==
    /\ procs[1].pc = "done" /\ procs[2].pc = "done"
    /\ procs[1].stale
    /\ stateFile = JsonFile(procs[1].save_arg)
    /\ procs[1].new_msg_ids = <<1>>
    /\ procs[2].new_msg_ids = <<2>>
    /\ procs[1].seen_message_ids = <<>> /\ procs[2].seen_message_ids = <<>>
    /\ FileIds(stateFile) = {1}
    /\ Cardinality({1, 2}) <= MAX_SEEN_IDS

----------------------------------------------------------------------------
(* Properties of the reconciliation (SpecRecon).                           *)

SameIds(a, b) ==
    /\ Range(a.seen_message_ids) = Range(b.seen_message_ids)
    /\ Range(a.seen_secondary_event_ids) = Range(b.seen_secondary_event_ids)

\* C6: two reconciliations of the same reply against the same prior state
\* persist the same ids, last_check and last_action_items, and reconciling
\* the result with the same reply again leaves the seen ids as they were.
C6_ReconcileIdempotent ==
    /\ r_pc \in {"second", "third"} =>
           /\ SameIds(r_second, r_first)
           /\ r_second.last_check = r_first.last_check
           /\ r_second.last_action_items = r_first.last_action_items
    /\ r_pc = "third" => SameIds(r_third, r_first)

----------------------------------------------------------------------------
(* Properties of _extract_json (SpecExtract).                              *)

\* the interior of the first complete fenced block opened by a marker of
\* `open`, as a one-element sequence; empty when there is no such block
BlockInterior(text, open) ==
    LET start == FindFrom(text, 1, open) + 1
        end == IF start = 1 THEN 0 ELSE FindFrom(text, start, Fences)
    IN  IF end = 0 THEN <<>> ELSE <<Strip(SubSeq(text, start, end - 1))>>

\* the text between the first { and the last }
BraceSpan(text) ==
    LET start == FindFrom(text, 1, {"L"})
        end == RFind(text, {"R"})
    IN  IF start # 0 /\ end > start THEN <<SubSeq(text, start, end)>> ELSE <<>>

\* what the strategies that apply to the text yield, in priority order
Candidates(text) ==
    BlockInterior(text, {"J"}) \o BlockInterior(text, {"F"}) \o BraceSpan(text)

\* C10: when some strategy that applies to the text yields decodable JSON,
\* _extract_json returns what the first such strategy decodes to; it fails
\* when strategies apply and none of them yields decodable JSON.
C10_ExtractFallback ==
    x_pc = "done" =>
        LET cands == Candidates(x_text)
            good == {i \in 1..Len(cands) : json_loads(cands[i]) # "error"}
        IN  /\ good # {} =>
                   x_result = json_loads(cands[CHOOSE i \in good : \A j \in good : i <= j])
            /\ (cands # <<>> /\ good = {}) => x_result = "error"

====
